---- MODULE Spec2Model ----
(***************************************************************************)
(* Bilingual (Persian/English) chatbot: the Chatbot class (lazy model      *)
(* loading, the lru_cache'd translation method, generate_response), the    *)
(* helpers detect_language and translate_text, and the Streamlit handler   *)
(* that keeps the conversation history.                                    *)
(*                                                                         *)
(* A text is the sequence of its code points.  The neural models, the      *)
(* langdetect library and the model downloads are external: each call to   *)
(* one of them is a choice among the outcomes it can produce (a value or   *)
(* an exception).                                                          *)
(*                                                                         *)
(* Three specifications share the variables:                               *)
(*   Spec      the Streamlit session: one handler run per user message;    *)
(*   SpecApi   a caller of the public methods of Chatbot;                  *)
(*   SpecCache a caller of the memoised translation method on a loaded     *)
(*             Chatbot, with a stream of distinct texts.                   *)
(***************************************************************************)
EXTENDS Integers, Sequences, FiniteSets, TLC

VARIABLES
    bb_tokenizer,        \* Chatbot.bb_tokenizer, per instance: "None" | "loaded"
    bb_model,            \* Chatbot.bb_model, per instance
    translation_models,  \* Chatbot.translation_models, per instance
    is_initialized,      \* Chatbot._is_initialized, per instance
    bb_loader_cache,     \* lru_cache(maxsize=1) of load_blenderbot_model holds a result
    tr_loader_cache,     \* lru_cache(maxsize=1) of load_translation_models holds a result
    cache,               \* lru_cache of Chatbot._cached_translate, least recently used first
    history,             \* st.session_state.history
    calls,               \* the calls made by the last handler run / method call, in order
    result,              \* how the last handler run / method call ended
    load_failed,         \* per instance: initialize_models has raised at least once
    loader_runs,         \* number of executions of a model loader's body (bounded)
    appended,            \* number of turns appended to the history so far
    clears,              \* number of clear_cache calls so far
    turns,               \* number of handler runs so far
    varied,              \* number of handler runs that were not the plain English turn
    fresh,               \* index of the last stream text sent (SpecCache)
    memo,                \* the (key, value) pairs stored since the last clear or eviction
    recency,             \* the keys used since the last clear, in order of last use
    pc,                  \* per thread: where it is in its request (SpecRace)
    langdetect_available \* utils.LANGDETECT_AVAILABLE, fixed at import

vars == <<bb_tokenizer, bb_model, translation_models, is_initialized,
          bb_loader_cache, tr_loader_cache, cache, history, calls, result,
          load_failed, loader_runs, appended, clears, turns, varied, fresh,
          memo, recency, pc, langdetect_available>>

----------------------------------------------------------------------------
(* Program constants *)

history_limit == 50

CLEAR_EVERY == 10

maxsize == 100

LANGDETECT_MIN_LEN == 10

FA_FIRST == 1536

FA_LAST == 1791

THRESHOLD_DIV == 4

(* Bounds of the model *)

\* handler runs per session: the history reaches history_limit in the 25th
\* answered turn and is trimmed from the 26th on
MaxTurns == 27

\* handler runs per session that are not the plain turn ("Hi", answered):
\* a Persian message, or a run that ends in an error or an empty reply
MaxVaried == 1

\* executions of the model loaders' bodies after which loading succeeds
MaxLoaderRuns == 4

\* keys of the stream sent between two clears: with the probe key, more
\* than maxsize distinct keys
\* the longest text given to detect_language on its own, and the number of
\* leading characters drawn from the edges of the Persian block
MaxText == 11
MaxEdgeLen == 2

MaxFresh == 101

----------------------------------------------------------------------------
(* Texts *)

Chatbots == {1, 2}

\* the threads of the hosting server that may serve requests at once
Threads == {1, 2}

Empty == <<>>

Hi == <<72, 105>>

Salam == <<1587, 1604, 1575, 1605>>

\* 11 characters, 3 of them Persian: long enough for langdetect, and the
\* heuristic says fa (3 > 11/4)
LongMixed == <<1587, 1604, 1575, 32, 104, 101, 108, 108, 111, 33, 33>>

OkReply == <<79, 75>>

Hello == <<72, 101, 108, 108, 111>>

Khob == <<1582, 1576>>

\* the n-th text of the stream of distinct Persian texts
StreamText(n) == <<1587, 1536 + n>>

\* a python value that is a str, or one that is not (None, a number)
Str(s) == [isstr |-> TRUE, truthy |-> s # <<>>, s |-> s]

NoneValue == [isstr |-> FALSE, truthy |-> FALSE, s |-> <<>>]

IntValue == [isstr |-> FALSE, truthy |-> TRUE, s |-> <<>>]

\* `not x or not isinstance(x, str)`
InvalidText(x) == ~x.truthy \/ ~x.isstr

----------------------------------------------------------------------------
(* Outcomes of the external collaborators *)

Ok(v) == [ok |-> TRUE, out |-> v]

Fails == [ok |-> FALSE, out |-> <<>>]

\* from_pretrained / .to(device): the download or the allocation may throw
LoadOutcomes == {"ok", "fail"}

\* langdetect.detect: a language code, or LangDetectException
LangdetectOutcomes == {"fa", "en", "de", "throw"}

\* the dialogue model's decoded reply (possibly empty), or an exception
GenerationOutcomes(text) == {Ok(OkReply), Ok(Empty), Fails}

\* a translation model's decoded output, or an exception
\* (two candidate outputs for Salam, one per stream text)
TranslationOutcomes(text, direction) ==
    IF direction = "en_fa" THEN {Ok(Khob), Fails}
    ELSE IF text = Salam THEN {Ok(Hello), Ok(Hi), Fails}
    ELSE {Ok(<<72>> \o Tail(text)), Fails}

----------------------------------------------------------------------------
(* The record of one call, as the log `calls` keeps it.  self: the Chatbot   *)
(* instance (0: none).  out: the value the call stored or returned.  hit: a  *)
(* lookup found the key in its cache.  ready: the instance was initialised,  *)
(* with its translation models loaded, when the call was made.               *)

Call(op, self, text, dir, out, hit, ready) ==
    [op |-> op, self |-> self, text |-> text, dir |-> dir, out |-> out,
     hit |-> hit, ready |-> ready]

Note(op) == Call(op, 0, <<>>, "", <<>>, FALSE, FALSE)

\* an exception leaves the call that raised it
Raised(exc) == Call("raise", 0, <<>>, exc, <<>>, FALSE, FALSE)

----------------------------------------------------------------------------
(* utils.detect_language *)

\* len(re.findall(r"[\u0600-\u06FF]", text))
fa_chars(s) == Cardinality({i \in 1..Len(s) : s[i] >= FA_FIRST /\ s[i] <= FA_LAST})

\* faulty variant: a quarter of the text is enough
Heuristic_AtLeast(s) == IF fa_chars(s) * THRESHOLD_DIV >= Len(s) THEN "fa" ELSE "en"

\* "fa" if fa_chars > len(text) / 4 else "en"; the division is exact (float),
\* so the comparison is fa_chars * 4 > len(text)
Heuristic(s) == IF fa_chars(s) * THRESHOLD_DIV > Len(s) THEN "fa" ELSE "en"

\* faulty variant: no except clause around the detector
detect_language_NoCatch(x, avail) ==
    IF InvalidText(x)
    THEN {[raised |-> "ValueError", lang |-> "", calls |-> <<>>]}
    ELSE IF avail /\ Len(x.s) > LANGDETECT_MIN_LEN
         THEN {[raised |-> IF ld = "throw" THEN "Exception" ELSE "none",
                lang   |-> IF ld = "throw" THEN ""
                           ELSE IF ld \in {"fa", "en"} THEN ld
                           ELSE Heuristic(x.s),
                calls  |-> <<Call("langdetect", 0, x.s, ld, <<>>, FALSE, FALSE)>>]
               : ld \in LangdetectOutcomes}
         ELSE {[raised |-> "none", lang |-> Heuristic(x.s), calls |-> <<>>]}

\* the set of ways detect_language(x) can end: [raised, lang, calls]
detect_language(x, avail) ==
    IF InvalidText(x)
    THEN {[raised |-> "ValueError", lang |-> "", calls |-> <<>>]}
    ELSE IF avail /\ Len(x.s) > LANGDETECT_MIN_LEN
         THEN {[raised |-> "none",
                lang   |-> IF ld = "throw" THEN "en"
                           ELSE IF ld \in {"fa", "en"} THEN ld
                           ELSE Heuristic(x.s),
                calls  |-> <<Call("langdetect", 0, x.s, ld, <<>>, FALSE, FALSE)>>]
               : ld \in LangdetectOutcomes}
         ELSE {[raised |-> "none", lang |-> Heuristic(x.s), calls |-> <<>>]}

----------------------------------------------------------------------------
(* utils.translate_text *)

Directions == {"fa_en", "en_fa"}

\* the set of ways translate_text(x, direction, models) can end:
\* [raised, value, calls]
translate_text(x, direction, models) ==
    IF InvalidText(x)
    THEN {[raised |-> "ValueError", value |-> <<>>, calls |-> <<Raised("ValueError")>>]}
    ELSE IF direction \notin Directions
    THEN {[raised |-> "ValueError", value |-> <<>>, calls |-> <<Raised("ValueError")>>]}
    ELSE IF models = "None"
    \* models[direction] on None: TypeError, caught and re-raised
    THEN {[raised |-> "RuntimeError", value |-> <<>>, calls |-> <<Raised("TypeError")>>]}
    ELSE {[raised |-> IF o.ok THEN "none" ELSE "RuntimeError",
           value  |-> o.out,
           calls  |-> <<Call("model_generate", 0, x.s, direction, o.out, FALSE, TRUE)>>
                      \o (IF o.ok THEN <<>> ELSE <<Raised("Exception")>>)]
          : o \in TranslationOutcomes(x.s, direction)}

----------------------------------------------------------------------------
(* The state the Chatbot methods read and write, as one record *)

State ==
    [bb_tokenizer |-> bb_tokenizer, bb_model |-> bb_model,
     translation_models |-> translation_models, is_initialized |-> is_initialized,
     bb_loader_cache |-> bb_loader_cache, tr_loader_cache |-> tr_loader_cache,
     cache |-> cache, load_failed |-> load_failed, loader_runs |-> loader_runs,
     calls |-> <<>>]

Logged(st, cs) == [st EXCEPT !.calls = st.calls \o cs]

Ready(st, self) == st.is_initialized[self] /\ st.translation_models[self] = "loaded"

----------------------------------------------------------------------------
(* functools.lru_cache(maxsize=100) around Chatbot._cached_translate: the    *)
(* key is the argument tuple (self, text, direction); the entries are kept   *)
(* in order of use, least recently used first.                               *)

Key(self, text, direction) == [self |-> self, text |-> text, direction |-> direction]

\* the position of key k in cache c, 0 when absent
Lookup(c, k) ==
    IF \E i \in 1..Len(c) : c[i].key = k
    THEN CHOOSE i \in 1..Len(c) : c[i].key = k
    ELSE 0

Remove(c, i) == SubSeq(c, 1, i - 1) \o SubSeq(c, i + 1, Len(c))

\* faulty variant: a hit leaves the order alone: first in, first out
Touch_NoMove(c, i) == c

\* a hit makes the entry the most recently used one
Touch(c, i) == Append(Remove(c, i), c[i])

\* faulty variant: the result is returned and not kept
Store_Drop(c, k, v) == c

\* a new entry; a full cache first drops its least recently used entry
Store(c, k, v) ==
    IF Len(c) >= maxsize
    THEN Append(Tail(c), [key |-> k, value |-> v])
    ELSE Append(c, [key |-> k, value |-> v])

\* faulty variant: what a failed translation left is stored like a result
cached_translate_StoresFailure(st, self, x, direction) ==
    LET k     == Key(self, x.s, direction)
        i     == Lookup(st.cache, k)
        rdy   == Ready(st, self)
        look  == Call("cache_lookup", self, x.s, direction,
                      IF i # 0 THEN st.cache[i].value ELSE <<>>, i # 0, rdy)
        call  == Call("translate_text", self, x.s, direction, <<>>, FALSE, rdy)
        evict == IF Len(st.cache) >= maxsize
                 THEN <<Call("cache_evict", st.cache[1].key.self, st.cache[1].key.text,
                             st.cache[1].key.direction, <<>>, FALSE, rdy)>>
                 ELSE <<>>
    IN  IF i # 0
        THEN {[st     |-> [Logged(st, <<look>>) EXCEPT !.cache = Touch(st.cache, i)],
               raised |-> "none",
               value  |-> st.cache[i].value]}
        ELSE {[st     |-> [Logged(st, <<look, call>> \o t.calls \o evict
                                  \o <<Call("cache_store", self, x.s, direction,
                                            t.value, FALSE, rdy)>>)
                           EXCEPT !.cache = Store(st.cache, k, t.value)],
               raised |-> t.raised,
               value  |-> t.value]
              : t \in translate_text(x, direction, st.translation_models[self])}

\* the set of ways self._cached_translate(text, direction) can end:
\* [st, raised, value]
cached_translate(st, self, x, direction) ==
    LET k     == Key(self, x.s, direction)
        i     == Lookup(st.cache, k)
        rdy   == Ready(st, self)
        look  == Call("cache_lookup", self, x.s, direction,
                      IF i # 0 THEN st.cache[i].value ELSE <<>>, i # 0, rdy)
        call  == Call("translate_text", self, x.s, direction, <<>>, FALSE, rdy)
        evict == IF Len(st.cache) >= maxsize
                 THEN <<Call("cache_evict", st.cache[1].key.self, st.cache[1].key.text,
                             st.cache[1].key.direction, <<>>, FALSE, rdy)>>
                 ELSE <<>>
    IN  IF i # 0
        THEN {[st     |-> [Logged(st, <<look>>) EXCEPT !.cache = Touch(st.cache, i)],
               raised |-> "none",
               value  |-> st.cache[i].value]}
        ELSE {[st     |-> IF t.raised = "none"
                          THEN [Logged(st, <<look, call>> \o t.calls \o evict
                                       \o <<Call("cache_store", self, x.s, direction,
                                                 t.value, FALSE, rdy)>>)
                                EXCEPT !.cache = Store(st.cache, k, t.value)]
                          ELSE Logged(st, <<look, call>> \o t.calls),
               raised |-> t.raised,
               value  |-> t.value]
              : t \in translate_text(x, direction, st.translation_models[self])}

\* Chatbot.clear_cache: cache_clear() empties the one cache of the method
clear_cache(st, self) ==
    [Logged(st, <<Note("cache_clear")>>) EXCEPT !.cache = <<>>]

----------------------------------------------------------------------------
(* model_loader: both loaders are wrapped in lru_cache(maxsize=1), which     *)
(* keeps a returned value and never an exception.  Every call passes the     *)
(* same device, so a loader that has returned once answers from its cache.   *)

\* what a loader's body can do; a loader may keep failing only MaxLoaderRuns times
BodyOutcomes(st) ==
    IF st.loader_runs.bb + st.loader_runs.tr < MaxLoaderRuns THEN LoadOutcomes ELSE {"ok"}

\* the set of ways load_blenderbot_model(device) can end: [st, raised]
load_blenderbot_model(st) ==
    IF st.bb_loader_cache
    THEN {[st |-> Logged(st, <<Call("load_blenderbot_model", 0, <<>>, "", <<>>, TRUE, FALSE)>>),
           raised |-> "none"]}
    ELSE {[st |-> [Logged(st, <<Call("load_blenderbot_model", 0, <<>>, "", <<>>, FALSE, FALSE)>>)
                   EXCEPT !.loader_runs.bb = @ + 1, !.bb_loader_cache = (o = "ok")],
           raised |-> IF o = "ok" THEN "none" ELSE "RuntimeError"]
          : o \in BodyOutcomes(st)}

\* the set of ways load_translation_models(device) can end: [st, raised]
load_translation_models(st) ==
    IF st.tr_loader_cache
    THEN {[st |-> Logged(st, <<Call("load_translation_models", 0, <<>>, "", <<>>, TRUE, FALSE)>>),
           raised |-> "none"]}
    ELSE {[st |-> [Logged(st, <<Call("load_translation_models", 0, <<>>, "", <<>>, FALSE, FALSE)>>)
                   EXCEPT !.loader_runs.tr = @ + 1, !.tr_loader_cache = (o = "ok")],
           raised |-> IF o = "ok" THEN "none" ELSE "RuntimeError"]
          : o \in BodyOutcomes(st)}

----------------------------------------------------------------------------
(* Chatbot.initialize_models *)

LoadFailed(st, self) == [st EXCEPT !.load_failed[self] = TRUE]

\* line 39 done: the tuple assignment has stored the dialogue model
StoreBlenderbot(st, self) ==
    [st EXCEPT !.bb_tokenizer[self] = "loaded", !.bb_model[self] = "loaded"]

\* lines 40-41 done
StoreTranslation(st, self) ==
    [st EXCEPT !.translation_models[self] = "loaded", !.is_initialized[self] = TRUE]

\* faulty variant: the except clause logs the error and does not re-raise
initialize_models_Swallow(st, self) ==
    IF st.is_initialized[self]
    THEN {[st |-> st, raised |-> "none"]}
    ELSE UNION {
           IF b.raised # "none"
           THEN {[st |-> LoadFailed(b.st, self), raised |-> "none"]}
           ELSE {IF t.raised # "none"
                 THEN [st |-> LoadFailed(t.st, self), raised |-> "none"]
                 ELSE [st |-> StoreTranslation(t.st, self), raised |-> "none"]
                 : t \in load_translation_models(StoreBlenderbot(b.st, self))}
           : b \in load_blenderbot_model(st)}

\* faulty variant: the loading sequence runs whether or not it already has
initialize_models_NoGuard(st, self) ==
    UNION {
      IF b.raised # "none"
      THEN {[st |-> LoadFailed(b.st, self), raised |-> "RuntimeError"]}
      ELSE {IF t.raised # "none"
            THEN [st |-> LoadFailed(t.st, self), raised |-> "RuntimeError"]
            ELSE [st |-> StoreTranslation(t.st, self), raised |-> "none"]
            : t \in load_translation_models(StoreBlenderbot(b.st, self))}
      : b \in load_blenderbot_model(st)}

\* the set of ways self.initialize_models() can end: [st, raised]
initialize_models(st, self) ==
    IF st.is_initialized[self]
    THEN {[st |-> st, raised |-> "none"]}
    ELSE UNION {
           IF b.raised # "none"
           THEN {[st |-> LoadFailed(b.st, self), raised |-> "RuntimeError"]}
           ELSE {IF t.raised # "none"
                 THEN [st |-> LoadFailed(t.st, self), raised |-> "RuntimeError"]
                 ELSE [st |-> StoreTranslation(t.st, self), raised |-> "none"]
                 : t \in load_translation_models(StoreBlenderbot(b.st, self))}
           : b \in load_blenderbot_model(st)}

----------------------------------------------------------------------------
(* Chatbot.generate_response *)

Raise(st, exc) == [st |-> st, raised |-> exc, value |-> <<>>]

Return(st, v) == [st |-> st, raised |-> "none", value |-> v]

\* faulty variant: the reply is translated whatever the input language
translate_back_Always(st, self, response_en, user_lang) ==
    {IF t.raised # "none" THEN Raise(t.st, "RuntimeError") ELSE Return(t.st, t.value)
     : t \in cached_translate(st, self, Str(response_en), "en_fa")}

\* faulty variant: a reply that cannot be translated back is given in English
translate_back_Fallback(st, self, response_en, user_lang) ==
    IF user_lang = "fa"
    THEN {IF t.raised # "none" THEN Return(t.st, response_en) ELSE Return(t.st, t.value)
          : t \in cached_translate(st, self, Str(response_en), "en_fa")}
    ELSE {Return(st, response_en)}

\* lines 99-106: translate the reply back for a Persian input
translate_back(st, self, response_en, user_lang) ==
    IF user_lang = "fa"
    THEN {IF t.raised # "none" THEN Raise(t.st, "RuntimeError") ELSE Return(t.st, t.value)
          : t \in cached_translate(st, self, Str(response_en), "en_fa")}
    ELSE {Return(st, response_en)}

\* lines 88-106: the dialogue model on input_for_bot, then the way back
respond(st, self, input_for_bot, user_lang) ==
    IF st.bb_tokenizer[self] = "None" \/ st.bb_model[self] = "None"
    THEN {Raise(Logged(st, <<Raised("TypeError")>>), "RuntimeError")}
    ELSE UNION {
           LET st1 == Logged(st, <<Call("bb_generate", self, input_for_bot, user_lang, g.out,
                                        FALSE, Ready(st, self))>>
                                 \o (IF g.ok THEN <<>> ELSE <<Raised("Exception")>>))
           IN  IF ~g.ok THEN {Raise(st1, "RuntimeError")}
               ELSE translate_back(st1, self, g.out, user_lang)
           : g \in GenerationOutcomes(input_for_bot)}

\* faulty variant: the dialogue model gets the user's text as it came
translate_in_Raw(st, self, x, user_lang) == respond(st, self, x.s, user_lang)

\* lines 82-106: translate a Persian input to English, then respond
translate_in(st, self, x, user_lang) ==
    IF user_lang = "fa"
    THEN UNION {
           IF t.raised # "none" THEN {Raise(t.st, "RuntimeError")}
           ELSE respond(t.st, self, t.value, user_lang)
           : t \in cached_translate(st, self, x, "fa_en")}
    ELSE respond(st, self, x.s, user_lang)

\* lines 77-110: the try block; every exception leaves it as RuntimeError
pipeline(st, self, x, avail) ==
    UNION {
      LET st1 == Logged(st, <<Call("detect_language", self, x.s, d.lang, <<>>, FALSE,
                                 Ready(st, self))>> \o d.calls)
      IN  IF d.raised # "none"
          THEN {Raise(Logged(st1, <<Raised(d.raised)>>), "RuntimeError")}
          ELSE translate_in(st1, self, x, d.lang)
      : d \in detect_language(x, avail)}

\* faulty variant: the models are loaded before the input is looked at
generate_response_LateCheck(st, self, x, avail) ==
    UNION {
      IF i.raised # "none" THEN {Raise(i.st, "RuntimeError")}
      ELSE IF InvalidText(x) THEN {Raise(i.st, "ValueError")}
      ELSE pipeline(i.st, self, x, avail)
      : i \in initialize_models(st, self)}

\* the set of ways self.generate_response(x) can end: [st, raised, value]
generate_response(st, self, x, avail) ==
    IF InvalidText(x)
    THEN {Raise(st, "ValueError")}
    ELSE IF st.is_initialized[self]
    THEN pipeline(st, self, x, avail)
    ELSE UNION {
           IF i.raised # "none" THEN {Raise(i.st, "RuntimeError")}
           ELSE pipeline(i.st, self, x, avail)
           : i \in initialize_models(st, self)}

----------------------------------------------------------------------------
(* What the calls of a log say about the cache, kept apart from the cache:   *)
(* the pairs stored, and the order in which the keys were last used.         *)

RECURSIVE MemoAfter(_, _)
MemoAfter(m, cs) ==
    IF cs = <<>> THEN m
    ELSE LET e == Head(cs)
         IN  MemoAfter(IF e.op \in {"cache_clear", "cache_evict"} THEN {}
                       ELSE IF e.op = "cache_store"
                       THEN m \cup {[key |-> Key(e.self, e.text, e.dir), value |-> e.out]}
                       ELSE m,
                       Tail(cs))

Without(r, k) == SelectSeq(r, LAMBDA q : q # k)

RECURSIVE RecencyAfter(_, _)
RecencyAfter(r, cs) ==
    IF cs = <<>> THEN r
    ELSE LET e == Head(cs)
             k == Key(e.self, e.text, e.dir)
         IN  RecencyAfter(IF e.op = "cache_clear" THEN <<>>
                          ELSE IF e.op = "cache_store" \/ (e.op = "cache_lookup" /\ e.hit)
                          THEN Append(Without(r, k), k)
                          ELSE r,
                          Tail(cs))

----------------------------------------------------------------------------
(* Construction: Chatbot.__init__ (per instance), the empty memoisation      *)
(* caches, initialize_chatbot() of the Streamlit script.                     *)

Init ==
    /\ bb_tokenizer = [c \in Chatbots |-> "None"]
    /\ bb_model = [c \in Chatbots |-> "None"]
    /\ translation_models = [c \in Chatbots |-> "None"]
    /\ is_initialized = [c \in Chatbots |-> FALSE]
    /\ bb_loader_cache = FALSE
    /\ tr_loader_cache = FALSE
    /\ cache = <<>>
    /\ history = <<>>
    /\ calls = <<>>
    /\ result = [op |-> "init", self |-> 0, arg |-> NoneValue, dir |-> "",
                 raised |-> "none", value |-> <<>>]
    /\ load_failed = [c \in Chatbots |-> FALSE]
    /\ loader_runs = [bb |-> 0, tr |-> 0]
    /\ appended = 0
    /\ clears = 0
    /\ turns = 0
    /\ varied = 0
    /\ fresh = 0
    /\ memo = {}
    /\ recency = <<>>
    /\ pc = [t \in Threads |-> "start"]
    /\ langdetect_available \in BOOLEAN

\* the state a method call leaves behind
Commit(st) ==
    /\ bb_tokenizer' = st.bb_tokenizer
    /\ bb_model' = st.bb_model
    /\ translation_models' = st.translation_models
    /\ is_initialized' = st.is_initialized
    /\ bb_loader_cache' = st.bb_loader_cache
    /\ tr_loader_cache' = st.tr_loader_cache
    /\ cache' = st.cache
    /\ load_failed' = st.load_failed
    /\ loader_runs' = st.loader_runs
    /\ calls' = st.calls
    /\ memo' = MemoAfter(memo, st.calls)
    /\ recency' = RecencyAfter(recency, st.calls)
    /\ UNCHANGED langdetect_available

Result(op, self, arg, dir, raised, value) ==
    [op |-> op, self |-> self, arg |-> arg, dir |-> dir, raised |-> raised, value |-> value]

----------------------------------------------------------------------------
(* SpecApi: a caller of the public methods of one Chatbot *)

ApiChatbots == {1}

ApiInputs == {Str(Empty), NoneValue, IntValue, Str(Hi), Str(Salam), Str(LongMixed)}

ApiGenerateResponse(self, x) ==
    \E r \in generate_response(State, self, x, langdetect_available) :
        /\ Commit(r.st)
        /\ result' = Result("generate_response", self, x, "", r.raised, r.value)
        /\ UNCHANGED <<history, appended, clears, turns, varied, fresh, pc>>

ApiInitializeModels(self) ==
    \E r \in initialize_models(State, self) :
        /\ Commit(r.st)
        /\ result' = Result("initialize_models", self, NoneValue, "", r.raised, <<>>)
        /\ UNCHANGED <<history, appended, clears, turns, varied, fresh, pc>>

ApiClearCache(self) ==
    /\ Commit(clear_cache(State, self))
    /\ result' = Result("clear_cache", self, NoneValue, "", "none", <<>>)
    /\ UNCHANGED <<history, appended, clears, turns, varied, fresh, pc>>

NextApi ==
    \E self \in ApiChatbots :
        \/ \E x \in ApiInputs : ApiGenerateResponse(self, x)
        \/ ApiInitializeModels(self)
        \/ ApiClearCache(self)

SpecApi == Init /\ [][NextApi]_vars

----------------------------------------------------------------------------
(* Spec: the Streamlit session.  The script runs once per user message; the  *)
(* block under `if user_input:` is the handler.                              *)

SessionChatbot == 1

\* st.chat_input gives None or a non-empty str; `if user_input:` lets only
\* the latter through
SessionInputs == {Hi, Salam}

\* line 118
AppendUser(h, user_input) == Append(h, <<"user", user_input>>)

\* faulty variant: the slice keeps the front of the list
Trim_Oldest(h) ==
    IF Len(h) > history_limit
    THEN SubSeq(h, 1, history_limit)
    ELSE h

\* lines 122-123: history[-history_limit:]
Trim(h) ==
    IF Len(h) > history_limit
    THEN SubSeq(h, Len(h) - history_limit + 1, Len(h))
    ELSE h

\* line 143
AppendBot(h, bot_response) == Append(h, <<"bot", bot_response>>)

\* line 150
ClearDue(h) == Len(h) % CLEAR_EVERY = 0

\* lines 149-152
PeriodicClear(st, h) ==
    IF ClearDue(h) THEN clear_cache(st, SessionChatbot) ELSE st

\* faulty variant: the periodic clear is looked at before the reply is added
Completed_ClearFirst(st, h, bot_response) ==
    LET h3 == AppendBot(h, bot_response)
    IN  [st       |-> Logged(PeriodicClear(st, h3), <<Note("append_bot")>>),
         history  |-> h3,
         raised   |-> "none",
         value    |-> bot_response,
         appended |-> 2,
         cleared  |-> ClearDue(h3)]

\* lines 142-152: the turn ends well
Completed(st, h, bot_response) ==
    LET h3 == AppendBot(h, bot_response)
    IN  [st       |-> PeriodicClear(Logged(st, <<Note("append_bot")>>), h3),
         history  |-> h3,
         raised   |-> "none",
         value    |-> bot_response,
         appended |-> 2,
         cleared  |-> ClearDue(h3)]

\* faulty variant: the error message is kept as a bot turn
Reported_WithBot(st, h, exc) ==
    [st |-> st, history |-> AppendBot(h, <<>>), raised |-> exc, value |-> <<>>,
     appended |-> 2, cleared |-> FALSE]

\* lines 154-162: the except clauses report and go on
Reported(st, h, exc) ==
    [st |-> st, history |-> h, raised |-> exc, value |-> <<>>, appended |-> 1,
     cleared |-> FALSE]

\* lines 115-162: the set of ways one handler run can end:
\* [st, history, raised, value, appended, cleared]
user_input_handler(st, h, user_input, avail) ==
    LET h1  == AppendUser(h, user_input)
        h2  == Trim(h1)
        st1 == Logged(st, <<Note("append_user")>>
                          \o (IF h2 # h1 THEN <<Note("trim")>> ELSE <<>>))
    IN  UNION {
          LET st2 == Logged(st1, <<Call("detect_language", 0, user_input, d.lang, <<>>,
                                        FALSE, FALSE)>> \o d.calls
                                 \o (IF d.raised # "none" THEN <<>>
                                     ELSE <<Note("generate_response")>>))
          IN  IF d.raised # "none" THEN {Reported(st2, h2, d.raised)}
              ELSE {IF r.raised # "none" THEN Reported(r.st, h2, r.raised)
                    ELSE Completed(r.st, h2, r.value)
                    : r \in generate_response(st2, SessionChatbot, Str(user_input), avail)}
          : d \in detect_language(Str(user_input), avail)}

\* the plain turn: the short English message, answered
Plain(user_input, t) ==
    user_input = Hi /\ t.raised = "none" /\ t.value = OkReply

Handler(user_input) ==
    /\ turns < MaxTurns
    /\ \E t \in user_input_handler(State, history, user_input, langdetect_available) :
          /\ Plain(user_input, t) \/ varied < MaxVaried
          /\ Commit(t.st)
          /\ history' = t.history
          /\ appended' = appended + t.appended
          /\ clears' = IF t.cleared THEN clears + 1 ELSE clears
          /\ turns' = turns + 1
          /\ varied' = IF Plain(user_input, t) THEN varied ELSE varied + 1
          /\ result' = Result("handler", SessionChatbot, Str(user_input), "",
                              t.raised, t.value)
          /\ UNCHANGED <<fresh, pc>>

Next == \E user_input \in SessionInputs : Handler(user_input)

Spec == Init /\ [][Next]_vars

----------------------------------------------------------------------------
(* SpecCache: a caller of self._cached_translate on a Chatbot whose models   *)
(* are loaded, as generate_response calls it.  The caller sends a probe key  *)
(* (Salam, fa_en), the empty text, or the next key of a stream of distinct   *)
(* keys: every stream text once per direction.  After a clear the stream     *)
(* starts over.                                                              *)

StreamDirection(n) == IF n % 2 = 1 THEN "fa_en" ELSE "en_fa"

StreamKeyText(n) == StreamText((n + 1) \div 2)

CacheSetup(self) ==
    /\ ~is_initialized[self]
    /\ \E r \in initialize_models(State, self) :
          /\ r.raised = "none"
          /\ Commit(r.st)
          /\ result' = Result("initialize_models", self, NoneValue, "", r.raised, <<>>)
          /\ UNCHANGED <<history, appended, clears, turns, varied, fresh, pc>>

CachedTranslateCall(self, x, direction, next) ==
    /\ is_initialized[self]
    /\ \E r \in cached_translate(State, self, x, direction) :
          /\ Commit(r.st)
          /\ result' = Result("_cached_translate", self, x, direction, r.raised, r.value)
          /\ fresh' = IF r.raised = "none" THEN next ELSE fresh
          /\ UNCHANGED <<history, appended, clears, turns, varied, pc>>

CacheClear(self) ==
    /\ is_initialized[self]
    /\ Commit(clear_cache(State, self))
    /\ result' = Result("clear_cache", self, NoneValue, "", "none", <<>>)
    /\ fresh' = 0
    /\ UNCHANGED <<history, appended, clears, turns, varied, pc>>

NextCache ==
    \E self \in ApiChatbots :
        \/ CacheSetup(self)
        \/ CachedTranslateCall(self, Str(Salam), "fa_en", fresh)
        \/ CachedTranslateCall(self, Str(Empty), "en_fa", fresh)
        \/ /\ fresh < MaxFresh
           /\ CachedTranslateCall(self, Str(StreamKeyText(fresh + 1)),
                                  StreamDirection(fresh + 1), fresh + 1)
        \/ CacheClear(self)

SpecCache == Init /\ [][NextCache]_vars

----------------------------------------------------------------------------
(* Two requests for one Chatbot served by two threads at once. The code      *)
(* takes no lock: generate_response and initialize_models read               *)
(* _is_initialized and write the handles with nothing held, and an           *)
(* lru_cache wrapper looks its cache up, runs the loader with no lock held   *)
(* and stores the result afterwards. Each step below is one of those         *)
(* reads, runs or writes; the threads interleave between them.               *)

RaceChatbot == 1

RaceInput == Str(Hi)

Goto(t, label) == pc' = [pc EXCEPT ![t] = label]

RaceFrame == UNCHANGED <<history, appended, clears, turns, varied, fresh>>

\* chatbot.py:74 and :37: the thread reads _is_initialized
RaceEnter(t) ==
    /\ pc[t] = "start"
    /\ Goto(t, IF is_initialized[RaceChatbot] THEN "pipeline" ELSE "load_bb")
    /\ Commit(State)
    /\ result' = Result("enter", RaceChatbot, RaceInput, "", "none", <<>>)
    /\ RaceFrame

\* chatbot.py:39, the wrapper of load_blenderbot_model: a hit gives the
\* cached pair, which is assigned; a miss goes on to run the loader
RaceLookupBlenderbot(t) ==
    /\ pc[t] = "load_bb"
    /\ IF bb_loader_cache
       THEN /\ Commit(StoreBlenderbot(
                   Logged(State, <<Call("load_blenderbot_model", 0, <<>>, "", <<>>,
                                        TRUE, FALSE)>>), RaceChatbot))
            /\ Goto(t, "load_tr")
       ELSE /\ Commit(State)
            /\ Goto(t, "run_bb")
    /\ result' = Result("lookup_bb", RaceChatbot, RaceInput, "", "none", <<>>)
    /\ RaceFrame

\* model_loader.py:24-59 run by this thread, its result stored by the
\* wrapper and assigned at chatbot.py:39; a failure leaves initialize_models
\* as RuntimeError (chatbot.py:43-45)
RaceRunBlenderbot(t) ==
    /\ pc[t] = "run_bb"
    /\ \E o \in BodyOutcomes(State) :
          LET st == [Logged(State, <<Call("load_blenderbot_model", 0, <<>>, "", <<>>,
                                         FALSE, FALSE)>>)
                     EXCEPT !.loader_runs.bb = @ + 1,
                            !.bb_loader_cache = (@ \/ o = "ok")]
          IN  /\ Commit(IF o = "ok" THEN StoreBlenderbot(st, RaceChatbot)
                        ELSE LoadFailed(st, RaceChatbot))
              /\ Goto(t, IF o = "ok" THEN "load_tr" ELSE "raised")
              /\ result' = Result("run_bb", RaceChatbot, RaceInput, "",
                                  IF o = "ok" THEN "none" ELSE "RuntimeError", <<>>)
    /\ RaceFrame

\* chatbot.py:40-41, the wrapper of load_translation_models
RaceLookupTranslation(t) ==
    /\ pc[t] = "load_tr"
    /\ IF tr_loader_cache
       THEN /\ Commit(StoreTranslation(
                   Logged(State, <<Call("load_translation_models", 0, <<>>, "", <<>>,
                                        TRUE, FALSE)>>), RaceChatbot))
            /\ Goto(t, "pipeline")
       ELSE /\ Commit(State)
            /\ Goto(t, "run_tr")
    /\ result' = Result("lookup_tr", RaceChatbot, RaceInput, "", "none", <<>>)
    /\ RaceFrame

\* model_loader.py:62-107 run by this thread, then chatbot.py:40-41
RaceRunTranslation(t) ==
    /\ pc[t] = "run_tr"
    /\ \E o \in BodyOutcomes(State) :
          LET st == [Logged(State, <<Call("load_translation_models", 0, <<>>, "", <<>>,
                                         FALSE, FALSE)>>)
                     EXCEPT !.loader_runs.tr = @ + 1,
                            !.tr_loader_cache = (@ \/ o = "ok")]
          IN  /\ Commit(IF o = "ok" THEN StoreTranslation(st, RaceChatbot)
                        ELSE LoadFailed(st, RaceChatbot))
              /\ Goto(t, IF o = "ok" THEN "pipeline" ELSE "raised")
              /\ result' = Result("run_tr", RaceChatbot, RaceInput, "",
                                  IF o = "ok" THEN "none" ELSE "RuntimeError", <<>>)
    /\ RaceFrame

\* chatbot.py:77-110: the request goes on with the handles it finds
RaceRespond(t) ==
    /\ pc[t] = "pipeline"
    /\ \E r \in pipeline(State, RaceChatbot, RaceInput, langdetect_available) :
          /\ Commit(r.st)
          /\ result' = Result("generate_response", RaceChatbot, RaceInput, "",
                              r.raised, r.value)
    /\ Goto(t, "done")
    /\ RaceFrame

NextRace ==
    \E t \in Threads :
        \/ RaceEnter(t)
        \/ RaceLookupBlenderbot(t)
        \/ RaceRunBlenderbot(t)
        \/ RaceLookupTranslation(t)
        \/ RaceRunTranslation(t)
        \/ RaceRespond(t)

SpecRace == Init /\ [][NextRace]_vars

----------------------------------------------------------------------------
(* Two Chatbot instances in one process. _cached_translate is decorated in   *)
(* the class body, so there is one lru_cache for the class: the instance is  *)
(* part of each key, the capacity and cache_clear() are common to all.       *)

NextTwo ==
    \E self \in Chatbots :
        \/ CacheSetup(self)
        \/ CachedTranslateCall(self, Str(Salam), "fa_en", fresh)
        \/ CachedTranslateCall(self, Str(Hi), "en_fa", fresh)
        \/ CacheClear(self)

SpecTwo == Init /\ [][NextTwo]_vars

----------------------------------------------------------------------------
(* utils.detect_language on its own: a text typed one character at a time,   *)
(* the function applied to it after each character; and the inputs it        *)
(* refuses.                                                                  *)

\* a Latin letter and a Persian letter
Alphabet == {97, 1575}

\* the code points at and next to both ends of the Persian block
EdgeAlphabet == {FA_FIRST - 1, FA_FIRST, FA_LAST, FA_LAST + 1}

DetectInvalid == {Str(Empty), NoneValue, IntValue}

DetectCall(x) ==
    \E d \in detect_language(x, langdetect_available) :
        /\ Commit(Logged(State, d.calls))
        /\ result' = Result("detect_language", 0, x, d.lang, d.raised, <<>>)
        /\ UNCHANGED <<history, appended, clears, turns, varied, fresh, pc>>

DetectTyped(ch) ==
    /\ result.raised = "none"
    /\ Len(result.arg.s) < MaxText
    /\ ch \in (IF Len(result.arg.s) < MaxEdgeLen THEN Alphabet \cup EdgeAlphabet
                ELSE Alphabet)
    /\ DetectCall(Str(Append(result.arg.s, ch)))

DetectRefused(x) ==
    /\ result.op = "init"
    /\ DetectCall(x)

NextDetect ==
    \/ \E ch \in Alphabet \cup EdgeAlphabet : DetectTyped(ch)
    \/ \E x \in DetectInvalid : DetectRefused(x)

SpecDetect == Init /\ [][NextDetect]_vars

----------------------------------------------------------------------------
(* Helpers of the properties *)

Ops(cs, names) == {i \in 1..Len(cs) : cs[i].op \in names}

KeySet(c) == {c[i].key : i \in 1..Len(c)}

\* the n most recently used keys of r
MostRecent(r, n) == {r[i] : i \in {j \in 1..Len(r) : j > Len(r) - n}}

\* the least recently used of the n most recently used keys of r
LeastRecent(r, n) == IF Len(r) > n THEN r[Len(r) - n + 1] ELSE r[1]

CachedValue(c, k) == c[Lookup(c, k)].value

SalamKey == Key(1, Salam, "fa_en")

\* the last call was generate_response and its detect_language said lang
Detected(res, cs, lang) ==
    /\ res.op = "generate_response"
    /\ \E i \in Ops(cs, {"detect_language"}) : cs[i].self = res.self /\ cs[i].dir = lang

----------------------------------------------------------------------------
(* C1: in every reachable state of a session, after the handler has run     *)
(* (user turn appended, history trimmed, bot turn appended), the history     *)
(* holds at most history_limit turns.  Spec.                                 *)
C1_HistoryWithinLimit == Len(history) <= history_limit

(* C2: once initialize_models has raised for a Chatbot, the failure is       *)
(* terminal: no later call makes the instance initialised, and no later      *)
(* call runs a model loader again.  SpecApi.                                 *)
C2_FailedIsTerminal ==
    [][\A c \in Chatbots :
          load_failed[c] => (~is_initialized'[c] /\ loader_runs' = loader_runs)]_vars

(* C3: model loading is all-or-nothing: after any call the dialogue model,   *)
(* its tokenizer and the translation models of a Chatbot are all loaded or   *)
(* all unloaded.  SpecApi.                                                   *)
C3_AllOrNothing ==
    \A c \in Chatbots :
        /\ (bb_model[c] = "loaded") <=> (translation_models[c] = "loaded")
        /\ (bb_tokenizer[c] = "loaded") <=> (translation_models[c] = "loaded")

(* C4: the translation cache is cleared every CLEAR_EVERY turns for the      *)
(* whole session: for every k, once CLEAR_EVERY * k turns have been appended *)
(* to the history, the handler has cleared the cache at least k times.       *)
(* Spec.                                                                     *)
C4_ClearedEveryTenTurns == clears >= appended \div CLEAR_EVERY

(* C5: a call of _cached_translate(t, d) whose key was stored by an earlier  *)
(* call, with no clear and no eviction since, makes no call of               *)
(* translate_text and returns the value the earlier call stored.  SpecCache. *)
C5_SecondCallUsesCache ==
    [][\A p \in memo :
          (/\ result'.op = "_cached_translate"
           /\ Key(result'.self, result'.arg.s, result'.dir) = p.key)
          => /\ Ops(calls', {"translate_text", "model_generate"}) = {}
             /\ result'.raised = "none"
             /\ result'.value = p.value]_vars

\* the probe key is requested again after other keys were stored, and hits
C5_Witness ==
    /\ result.op = "_cached_translate"
    /\ result.arg = Str(Salam)
    /\ Len(calls) = 1 /\ calls[1].op = "cache_lookup" /\ calls[1].hit
    /\ result.value = Hi
    /\ Len(cache) > 2

(* C6: the translation cache never holds more than maxsize entries; it holds *)
(* exactly the maxsize most recently used keys (a hit counts as a use) and   *)
(* the entry it evicts next, its first, is the least recently used of them;  *)
(* a request hits exactly when its key is among them, so an evicted key      *)
(* misses.  SpecCache.                                                       *)
C6_CacheIsBoundedLru ==
    [][/\ Len(cache') <= maxsize
       /\ KeySet(cache') = MostRecent(recency', maxsize)
       /\ cache' # <<>> => cache'[1].key = LeastRecent(recency', maxsize)
       /\ result'.op = "_cached_translate" /\ calls' # <<>>
          => (calls'[1].hit <=>
                Key(result'.self, result'.arg.s, result'.dir) \in MostRecent(recency, maxsize))
      ]_vars

\* a full cache has just evicted the first stream key, which was used before
\* the probe key was last used; the probe key, stored first, is still cached
C6_Witness ==
    /\ Len(cache) = maxsize
    /\ Len(recency) > maxsize
    /\ \E i \in Ops(calls, {"cache_evict"}) :
          calls[i].text = StreamKeyText(1) /\ calls[i].dir = "fa_en"
    /\ recency[1] = Key(1, StreamKeyText(1), "fa_en")
    /\ SalamKey \in KeySet(cache)
    /\ result.arg # Str(Salam)

(* C7: the translation cache is looked up or filled, and translate_text is   *)
(* called, only while the instance is initialised with its translation       *)
(* models loaded, whatever generate_response calls came before and however   *)
(* their model loads ended.  SpecApi.                                        *)
C7_CacheOnlyWhenReady ==
    \A i \in Ops(calls, {"cache_lookup", "cache_store", "translate_text"}) : calls[i].ready

\* a request that reaches the cache on an instance whose loading failed once
C7_Witness ==
    /\ load_failed[1]
    /\ result.op = "generate_response"
    /\ Ops(calls, {"cache_lookup"}) # {}
    /\ Ops(calls, {"load_translation_models"}) # {}

(* C8: generate_response with an empty or non-string user_input raises       *)
(* ValueError before any model or cache access: the model handles, the       *)
(* initialised flag, the loaders' caches and the translation cache are       *)
(* unchanged and no call is made.  SpecApi.                                  *)
C8_InvalidInputTouchesNothing ==
    [][(result'.op = "generate_response" /\ InvalidText(result'.arg))
       => /\ result'.raised = "ValueError"
          /\ calls' = <<>>
          /\ UNCHANGED <<bb_tokenizer, bb_model, translation_models, is_initialized,
                         bb_loader_cache, tr_loader_cache, cache, loader_runs,
                         load_failed>>]_vars

\* the empty string is refused by a Chatbot whose models were never loaded
C8_Witness ==
    /\ result.op = "generate_response"
    /\ result.arg = Str(Empty)
    /\ result.raised = "ValueError"
    /\ ~is_initialized[1] /\ loader_runs = [bb |-> 0, tr |-> 0]

(* C9: for an input detected as fa, generate_response looks the input up     *)
(* with fa_en first, invokes the dialogue model after that and on the        *)
(* English translation (never on the input itself), looks the model's reply  *)
(* up with en_fa after that, and returns the result of that last             *)
(* translation.  SpecApi.                                                    *)
C9_PersianPipelineOrder ==
    Detected(result, calls, "fa") =>
      LET self == result.self
          text == result.arg.s
          ins  == {i \in Ops(calls, {"cache_lookup"}) : calls[i].dir = "fa_en"}
          gens == Ops(calls, {"bb_generate"})
          outs == {i \in Ops(calls, {"cache_lookup"}) : calls[i].dir = "en_fa"}
      IN  /\ \A j \in gens :
                /\ calls[j].text # text
                /\ \E i \in ins : i < j /\ calls[i].text = text
                /\ calls[j].text = CachedValue(cache, Key(self, text, "fa_en"))
          /\ \A k \in outs : \E j \in gens : j < k /\ calls[k].text = calls[j].out
          /\ Cardinality(ins) <= 1 /\ Cardinality(gens) <= 1 /\ Cardinality(outs) <= 1
          /\ result.raised = "none"
             => /\ ins # {} /\ gens # {} /\ outs # {}
                /\ \A j \in gens :
                      result.value = CachedValue(cache, Key(self, calls[j].out, "en_fa"))

\* a Persian message answered in Persian
C9_Witness ==
    /\ result.op = "generate_response"
    /\ result.arg = Str(Salam)
    /\ result.raised = "none"
    /\ result.value = Khob

(* C10: for an input detected as en, generate_response makes no translation  *)
(* call and leaves the translation cache unchanged, invokes the dialogue     *)
(* model with exactly user_input, and returns the model's reply unchanged.   *)
(* SpecApi.                                                                  *)
C10_EnglishBypassesTranslation ==
    [][Detected(result', calls', "en")
       => /\ cache' = cache
          /\ Ops(calls', {"cache_lookup", "cache_store", "translate_text",
                          "model_generate"}) = {}
          /\ \A j \in Ops(calls', {"bb_generate"}) :
                /\ calls'[j].text = result'.arg.s
                /\ result'.raised = "none" => result'.value = calls'[j].out
          /\ result'.raised = "none" => Ops(calls', {"bb_generate"}) # {}]_vars

\* an English message answered while the cache holds translations
C10_Witness ==
    /\ result.op = "generate_response"
    /\ result.arg = Str(Hi)
    /\ result.raised = "none"
    /\ result.value = OkReply
    /\ cache # <<>>


\* ---------------------------------------------------------------------------
\* the last n entries of h, taken one by one
LastN(h, n) == [i \in 1..n |-> h[Len(h) - n + i]]

Min(a, b) == IF a <= b THEN a ELSE b

\* C11: a turn that fails adds the user's entry and nothing else: no bot
\* entry, every entry that was there is still there in its place (but for
\* the oldest ones the cap pushes out); and the run after a failed turn is
\* an ordinary one: it adds its own user entry, asks the chatbot, and adds
\* the bot entry when it is answered.
C11_FailedTurnKeepsSession ==
    [][
       /\ (result'.op = "handler" /\ result'.raised # "none") =>
            LET h1 == Append(history, <<"user", result'.arg.s>>)
            IN  /\ history' = LastN(h1, Min(Len(h1), history_limit))
                /\ history'[Len(history')] = <<"user", result'.arg.s>>
                /\ Ops(calls', {"append_bot", "cache_clear"}) = {}
                /\ clears' = clears
       /\ (result.op = "handler" /\ result.raised # "none") =>
            /\ result'.op = "handler"
            /\ Ops(calls', {"append_user"}) # {}
            /\ Ops(calls', {"generate_response"}) # {}
            /\ result'.raised = "none" =>
                  /\ history'[Len(history')] = <<"bot", result'.value>>
                  /\ history'[Len(history') - 1] = <<"user", result'.arg.s>>
                  /\ history'[Len(history') - 2][1] = "user"
    ]_vars

\* a failed turn followed by an answered one
C11_Witness ==
    /\ result.op = "handler" /\ result.raised = "none"
    /\ Len(history) >= 3
    /\ history[Len(history)][1] = "bot"
    /\ history[Len(history) - 1][1] = "user"
    /\ history[Len(history) - 2][1] = "user"


\* ---------------------------------------------------------------------------
\* C12: once generate_response is past validation and loading, a failure of
\* any step (a translation, the generation, the translation rejecting an
\* empty reply) ends the request at once with RuntimeError and no value:
\* the raising call is the last call of the request, and within a request
\* the language is detected once, the dialogue model runs at most once and
\* each direction is translated at most once.
C12_OneErrorNoRetry ==
    (result.op = "generate_response" /\ Ops(calls, {"detect_language"}) # {}) =>
        LET fails == Ops(calls, {"raise"})
        IN  /\ (fails # {}) <=> (result.raised # "none")
            /\ fails # {} => /\ result.raised = "RuntimeError"
                             /\ result.value = <<>>
                             /\ fails = {Len(calls)}
            /\ Cardinality(Ops(calls, {"detect_language"})) = 1
            /\ Cardinality(Ops(calls, {"bb_generate"})) <= 1
            /\ \A d \in Directions :
                  /\ Cardinality({i \in Ops(calls, {"translate_text"}) : calls[i].dir = d}) <= 1
                  /\ Cardinality({i \in Ops(calls, {"cache_lookup"}) : calls[i].dir = d}) <= 1

\* the dialogue model gave an empty reply to a Persian message and the
\* translation back refused it
C12_Witness ==
    /\ result.op = "generate_response" /\ result.raised = "RuntimeError"
    /\ \E i \in Ops(calls, {"bb_generate"}) : calls[i].out = Empty /\ calls[i].dir = "fa"
    /\ calls[Len(calls)].op = "raise" /\ calls[Len(calls)].dir = "ValueError"
    /\ calls[Len(calls) - 1].op = "translate_text"


\* ---------------------------------------------------------------------------
\* C13: when two requests meet at the first use of one Chatbot and no load
\* fails, load_blenderbot_model and load_translation_models are each
\* executed at most once.
C13_LoadersRunOnce ==
    (\A c \in Chatbots : ~load_failed[c]) =>
        (loader_runs.bb <= 1 /\ loader_runs.tr <= 1)


\* ---------------------------------------------------------------------------
\* the (text, direction) requests of instance c that would hit in cache k
HitsOf(k, c) == {[text |-> e.text, direction |-> e.direction] : e \in {x \in KeySet(k) : x.self = c}}

\* C14: a call on one Chatbot (a translation that inserts or evicts, or
\* clear_cache) leaves the set of requests that hit on every other Chatbot
\* as it was.
C14_CacheScopedToInstance ==
    [][\A c \in Chatbots : result'.self # c => HitsOf(cache', c) = HitsOf(cache, c)]_vars


\* ---------------------------------------------------------------------------
\* the calls of the statistical detector in a log, and what they gave
Langdetect(cs) == {cs[i].dir : i \in Ops(cs, {"langdetect"})}

\* C15: for a non-empty string detect_language raises nothing and returns
\* "fa" or "en", whatever the statistical detector does; when the detector
\* throws the result is "en".
C15_DetectIsTotal ==
    (result.op = "detect_language" /\ result.arg.isstr /\ result.arg.s # <<>>) =>
        /\ result.raised = "none"
        /\ result.dir \in {"fa", "en"}
        /\ "throw" \in Langdetect(calls) => result.dir = "en"

\* the detector threw on a text made of Persian letters only
C15_Witness ==
    /\ result.op = "detect_language" /\ result.raised = "none"
    /\ "throw" \in Langdetect(calls)
    /\ \A i \in 1..Len(result.arg.s) : result.arg.s[i] = 1575
    /\ result.dir = "en"

\* the number of characters of s in U+0600..U+06FF, counted one by one
RECURSIVE PersianCount(_)
PersianCount(s) ==
    IF s = <<>> THEN 0
    ELSE (IF Head(s) \in 1536..1791 THEN 1 ELSE 0) + PersianCount(Tail(s))

\* C16: the heuristic is what answers when the detector is unavailable, the
\* text has at most 10 characters, or the detector gives a code other than
\* "fa" and "en"; its answer is "fa" exactly when the number of characters
\* in U+0600..U+06FF is more than a quarter of the length: no such character
\* gives "en", only such characters give "fa".
C16_HeuristicThreshold ==
    (result.op = "detect_language" /\ result.raised = "none") =>
        LET s == result.arg.s
        IN  /\ (~langdetect_available \/ Len(s) <= 10) => Langdetect(calls) = {}
            /\ Langdetect(calls) \cap {"fa", "en", "throw"} = {} =>
                  /\ result.dir = "fa" <=> 4 * PersianCount(s) > Len(s)
                  /\ PersianCount(s) = 0 => result.dir = "en"
                  /\ PersianCount(s) = Len(s) => result.dir = "fa"

\* the detector said German for a long text that is one quarter Persian and
\* more; and a four-character text with one Persian character
C16_Witness ==
    /\ result.op = "detect_language" /\ result.raised = "none"
    /\ "de" \in Langdetect(calls)
    /\ result.dir = "fa"
    /\ 4 * PersianCount(result.arg.s) = Len(result.arg.s) + 1


\* ---------------------------------------------------------------------------
Loaders == {"load_blenderbot_model", "load_translation_models"}

\* C17: once a Chatbot is initialized, no call on it (initialize_models,
\* generate_response, clear_cache) changes its three handles or its flag,
\* and none calls a loader: no loader call is made and no loader body runs.
C17_InitializedIsIdempotent ==
    [][\A c \in ApiChatbots :
          is_initialized[c] =>
              /\ bb_tokenizer'[c] = bb_tokenizer[c]
              /\ bb_model'[c] = bb_model[c]
              /\ translation_models'[c] = translation_models[c]
              /\ is_initialized'[c]
              /\ loader_runs' = loader_runs
              /\ Ops(calls', Loaders) = {}]_vars

\* initialize_models called on an initialized Chatbot: it did nothing
C17_Witness ==
    /\ result.op = "initialize_models" /\ result.raised = "none"
    /\ is_initialized[result.self]
    /\ bb_model[result.self] = "loaded" /\ translation_models[result.self] = "loaded"
    /\ calls = <<>>


\* ---------------------------------------------------------------------------
\* what the handler kept of the history after adding the user's turn: the
\* history it left, less the bot turn it added when the turn was answered
KeptAfterTrim(h, answered) == IF answered THEN SubSeq(h, 1, Len(h) - 1) ELSE h

\* C18: when the user's turn makes the history longer than history_limit,
\* what is kept is history_limit turns long and is the end of the history
\* as it was before the trim: entry i kept is entry i + (number dropped) of
\* it, so the order is kept and nothing is repeated.
C18_TrimKeepsMostRecent ==
    [][result'.op = "handler" =>
          LET pre     == Append(history, <<"user", result'.arg.s>>)
              kept    == KeptAfterTrim(history', result'.raised = "none")
              dropped == Len(pre) - Len(kept)
          IN  /\ Len(pre) > history_limit => Len(kept) = history_limit
              /\ Len(pre) <= history_limit => dropped = 0
              /\ dropped >= 0
              /\ \A i \in 1..Len(kept) : kept[i] = pre[i + dropped]
              /\ (Ops(calls', {"trim"}) # {}) <=> (dropped > 0)]_vars

\* a run that found 51 turns, added the 52nd and dropped the two oldest
C18_Witness ==
    /\ result.op = "handler"
    /\ Ops(calls, {"trim"}) # {}
    /\ turns >= 27
    /\ Len(history) = history_limit + 1


\* ---------------------------------------------------------------------------
\* what the chatbot itself does within a handler run
ChatbotOps ==
    {"generate_response", "load_blenderbot_model", "load_translation_models",
     "cache_lookup", "cache_store", "cache_evict", "translate_text", "model_generate",
     "bb_generate", "raise"}

\* C19: within one handler run the user's turn is appended first, before
\* generate_response is called; the bot's turn is appended only when
\* generate_response returned, once, after everything the chatbot did, and
\* holds the value returned; the cache is cleared by the periodic check only
\* after the bot's turn was appended.
C19_TurnOrder ==
    result.op = "handler" =>
        LET users  == Ops(calls, {"append_user"})
            asks   == Ops(calls, {"generate_response"})
            works  == Ops(calls, ChatbotOps)
            bots   == Ops(calls, {"append_bot"})
            clears_ == Ops(calls, {"cache_clear"})
        IN  /\ users = {1}
            /\ Cardinality(asks) = 1
            /\ \A w \in works : \A a \in asks : a <= w
            /\ (bots # {}) <=> (result.raised = "none")
            /\ Cardinality(bots) <= 1
            /\ \A b \in bots : /\ \A w \in works : w < b
                                /\ history[Len(history)] = <<"bot", result.value>>
                                /\ history[Len(history) - 1] = <<"user", result.arg.s>>
            /\ bots = {} => history[Len(history)] = <<"user", result.arg.s>>
            /\ \A c \in clears_ : \E b \in bots : b < c

\* an answered turn after which the cache was cleared
C19_Witness ==
    /\ result.op = "handler" /\ result.raised = "none"
    /\ Ops(calls, {"cache_clear"}) # {}
    /\ calls[Len(calls) - 1].op = "append_bot"
    /\ Ops(calls, {"bb_generate"}) # {}


\* ---------------------------------------------------------------------------
\* C20: a call of _cached_translate that raises (the external translation
\* failed or refused the text) leaves the cache as it was, entries and
\* order, with no entry for its key; and the same call made next is a miss
\* that calls translate_text again.
C20_FailureNotCached ==
    [][
       /\ (result'.op = "_cached_translate" /\ result'.raised # "none") =>
            /\ cache' = cache
            /\ Key(result'.self, result'.arg.s, result'.dir) \notin KeySet(cache')
            /\ Ops(calls', {"cache_store", "cache_evict"}) = {}
       /\ (/\ result.op = "_cached_translate" /\ result.raised # "none"
           /\ result'.op = "_cached_translate"
           /\ result'.self = result.self /\ result'.arg = result.arg
           /\ result'.dir = result.dir) =>
            /\ calls'[1].op = "cache_lookup" /\ ~calls'[1].hit
            /\ Ops(calls', {"translate_text"}) # {}
    ]_vars

\* the translation of the probe failed with entries in the cache, and the
\* probe is not among them
C20_Witness ==
    /\ result.op = "_cached_translate" /\ result.raised = "RuntimeError"
    /\ result.arg = Str(Salam)
    /\ Len(cache) >= 2
    /\ SalamKey \notin KeySet(cache)

====
